---- MODULE Spec2Model ----
(***************************************************************************)
(* code-compass: the code chunker (chunking_utils.py) and the indexer      *)
(* (code_indexer.py).                                                      *)
(*                                                                         *)
(* Text.  A text is a sequence of lexemes, each lexeme a string standing   *)
(* for itself: a keyword ("class", "def", "import", ...), an identifier    *)
(* ("x", "y"), a punctuation mark, a blank " " or a line break "\n".  The  *)
(* text a sequence stands for is the concatenation of its lexemes.         *)
(* Positions (match.start(), match.end(), len(content)) count lexemes.     *)
(* Every quantified character class of the source's patterns is a class of *)
(* lexemes, every literal of the patterns is one lexeme, and no lexeme of  *)
(* the inputs holds a pattern's literal as a proper part, so matching      *)
(* lexeme by lexeme gives the matches of Python's re on the text.          *)
(***************************************************************************)
EXTENDS Integers, Sequences, FiniteSets, TLC

(***************************************************************************)
(* Bounds of the model.                                                    *)
(***************************************************************************)
\* the inputs of chunk_code_file, all families together, have at most this
\* many lines
MaxLines == 3
\* the c_style and javascript inputs, taken alone, have at most this many
MaxBraceLines == 4
\* the inputs of the other family and of chunk_by_lines have at most this many
MaxPlainLines == 5
\* chunk_by_lines is called with max_lines in 1..MaxWindow
MaxWindow == 3

(***************************************************************************)
(* Sequences.                                                              *)
(***************************************************************************)
Range(s) == {s[n] : n \in 1..Len(s)}

RECURSIVE Flatten(_)
\* the concatenation of a sequence of sequences
Flatten(ss) == IF ss = <<>> THEN <<>> ELSE Head(ss) \o Flatten(Tail(ss))

\* a, then what b adds to it, in b's order
Merge(a, b) == a \o SelectSeq(b, LAMBDA e : e \notin Range(a))

(***************************************************************************)
(* Python's str methods, on texts.                                         *)
(***************************************************************************)
\* the lexemes \s matches
Space == {" ", "\t", "\n"}

\* bool(line.strip()): the text holds something that is not white space
strip_nonempty(s) == \E n \in 1..Len(s) : s[n] \notin Space

RECURSIVE split(_, _)
\* s.split(sep) for a one-lexeme separator: always at least one piece
split(s, sep) ==
  IF \A n \in 1..Len(s) : s[n] # sep THEN <<s>>
  ELSE LET n == CHOOSE m \in 1..Len(s) :
                  s[m] = sep /\ \A k \in 1..(m - 1) : s[k] # sep
       IN  <<SubSeq(s, 1, n - 1)>> \o split(SubSeq(s, n + 1, Len(s)), sep)

RECURSIVE join(_, _)
\* sep.join(pieces)
join(pieces, sep) ==
  IF pieces = <<>> THEN <<>>
  ELSE IF Len(pieces) = 1 THEN pieces[1]
  ELSE pieces[1] \o <<sep>> \o join(Tail(pieces), sep)

RECURSIVE replace(_, _)
\* s.replace(sub, ''): every occurrence of sub, scanning left to right
replace(s, sub) ==
  IF sub = <<>> \/ Len(s) < Len(sub) THEN s
  ELSE IF SubSeq(s, 1, Len(sub)) = sub
       THEN replace(SubSeq(s, Len(sub) + 1, Len(s)), sub)
       ELSE <<Head(s)>> \o replace(Tail(s), sub)

(***************************************************************************)
(* Python's re, on texts.  A pattern is a tree; Ends(r, s, i) is the list  *)
(* of positions at which a match of r that starts at position i of s can   *)
(* end, in the order the backtracking matcher tries them, so its head is   *)
(* the end of the match re reports.  Positions are 0..Len(s).              *)
(***************************************************************************)
\* one lexeme of the class S
Tok(S) == [k |-> "tok", a |-> S]
\* one lexeme outside the class S
NotTok(S) == [k |-> "not", a |-> S]
\* r1 r2 ... rn
Cat(rs) == [k |-> "cat", a |-> rs]
\* r1|r2|...|rn
Alt(rs) == [k |-> "alt", a |-> rs]
\* r*
Star(r) == [k |-> "star", a |-> r]
\* r*?
Lazy(r) == [k |-> "lazy", a |-> r]
\* r+
Plus(r) == Cat(<<r, Star(r)>>)
\* r?
Opt(r) == Alt(<<r, Cat(<<>>)>>)
\* (?=r)
Ahead(r) == [k |-> "ahead", a |-> r]
\* ^ under re.MULTILINE
Bol == [k |-> "bol", a |-> {}]
\* $ without re.MULTILINE: the end, or before a last line break
Eos == [k |-> "eos", a |-> {}]
\* \s, \S, ., (?:.|\n)
S == Tok(Space)
NonS == NotTok(Space)
Dot == NotTok({"\n"})
AnyTok == NotTok({})

\* a pattern of one lexeme
IsOne(r) == r.k \in {"tok", "not"}
Matches(r, t) == IF r.k = "tok" THEN t \in r.a ELSE t \notin r.a
\* where the longest run of lexemes matching r that starts at position i ends
RunEnd(r, s, i) ==
  CHOOSE m \in i..Len(s) :
    /\ \A j \in (i + 1)..m : Matches(r, s[j])
    /\ m = Len(s) \/ ~Matches(r, s[m + 1])

RECURSIVE Ends(_, _, _), EndsAll(_, _, _), EndsCat(_, _, _, _), EndsAlt(_, _, _, _)
Ends(r, s, i) ==
  CASE r.k = "tok"   -> IF i < Len(s) /\ s[i + 1] \in r.a THEN <<i + 1>> ELSE <<>>
    [] r.k = "not"   -> IF i < Len(s) /\ s[i + 1] \notin r.a THEN <<i + 1>> ELSE <<>>
    [] r.k = "bol"   -> IF i = 0 \/ s[i] = "\n" THEN <<i>> ELSE <<>>
    [] r.k = "eos"   -> IF i = Len(s) \/ (i = Len(s) - 1 /\ s[i + 1] = "\n")
                        THEN <<i>> ELSE <<>>
    [] r.k = "ahead" -> IF Ends(r.a, s, i) # <<>> THEN <<i>> ELSE <<>>
    [] r.k = "cat"   -> EndsCat(r.a, 1, s, <<i>>)
    [] r.k = "alt"   -> EndsAlt(r.a, 1, s, i)
    \* a repeated single lexeme: the longest run first (r*), or last (r*?)
    [] r.k = "star" /\ IsOne(r.a) ->
         LET m == RunEnd(r.a, s, i) IN [j \in 1..(m - i + 1) |-> m - j + 1]
    [] r.k = "lazy" /\ IsOne(r.a) ->
         LET m == RunEnd(r.a, s, i) IN [j \in 1..(m - i + 1) |-> i + j - 1]
    [] r.k = "star" /\ ~IsOne(r.a) ->
         Merge(EndsAll(r, s, SelectSeq(Ends(r.a, s, i), LAMBDA e : e > i)), <<i>>)
    [] r.k = "lazy" /\ ~IsOne(r.a) ->
         Merge(<<i>>, EndsAll(r, s, SelectSeq(Ends(r.a, s, i), LAMBDA e : e > i)))
\* the ends of r from each position of ps in turn
EndsAll(r, s, ps) ==
  IF ps = <<>> THEN <<>>
  ELSE Merge(Ends(r, s, Head(ps)), EndsAll(r, s, Tail(ps)))
EndsCat(rs, n, s, ps) ==
  IF n > Len(rs) \/ ps = <<>> THEN ps
  ELSE EndsCat(rs, n + 1, s, EndsAll(rs[n], s, ps))
EndsAlt(rs, n, s, i) ==
  IF n > Len(rs) THEN <<>>
  ELSE Merge(Ends(rs[n], s, i), EndsAlt(rs, n + 1, s, i))

RECURSIVE search(_, _, _)
\* re.search from position p: <<start, end>> of the leftmost match, or <<>>
search(r, s, p) ==
  IF p > Len(s) THEN <<>>
  ELSE LET es == Ends(r, s, p)
       IN  IF es # <<>> THEN <<p, Head(es)>> ELSE search(r, s, p + 1)

RECURSIVE finditer_from(_, _, _)
finditer_from(r, s, p) ==
  LET m == search(r, s, p)
  IN  IF m = <<>> THEN <<>>
      ELSE <<m>> \o finditer_from(r, s, IF m[2] > m[1] THEN m[2] ELSE m[2] + 1)

\* re.finditer(r, s): the spans <<start, end>> of the matches, left to right
finditer(r, s) == finditer_from(r, s, 0)

\* the text of a span: s[start:end]
slice(s, start, end) == SubSeq(s, start + 1, end)

\* [match.group(0) for match in re.finditer(r, s)]
match_texts(r, s) ==
  LET spans == finditer(r, s)
  IN  [n \in 1..Len(spans) |-> slice(s, spans[n][1], spans[n][2])]

\* re.findall(r, s) for a pattern whose one group spans the whole match
findall(r, s) == match_texts(r, s)

(***************************************************************************)
(* chunk_by_lines                                                          *)
(***************************************************************************)
\* the default of max_lines
default_max_lines == 100

\* range(0, n, step), as the list of its values
range_step(n, step) == [k \in 1..((n + step - 1) \div step) |-> (k - 1) * step]

Min(a, b) == IF a < b THEN a ELSE b

\* lines[i:i + max_lines] (i is 0-based)
window(lines, i, max_lines) == SubSeq(lines, i + 1, Min(i + max_lines, Len(lines)))

\* chunk_by_lines keeping the windows that are blank
chunk_by_lines_keep_blank(content, max_lines) ==
  LET lines == split(content, "\n")
      starts == range_step(Len(lines), max_lines)
  IN  [k \in 1..Len(starts) |-> join(window(lines, starts[k], max_lines), "\n")]

\* chunk_by_lines with windows one line too long: lines[i:i + max_lines + 1]
chunk_by_lines_overlap(content, max_lines) ==
  LET lines == split(content, "\n")
      starts == range_step(Len(lines), max_lines)
      all == [k \in 1..Len(starts) |->
                join(window(lines, starts[k], max_lines + 1), "\n")]
  IN  SelectSeq(all, strip_nonempty)

chunk_by_lines(content, max_lines) ==
  LET lines == split(content, "\n")
      starts == range_step(Len(lines), max_lines)
      all == [k \in 1..Len(starts) |-> join(window(lines, starts[k], max_lines), "\n")]
  IN  SelectSeq(all, strip_nonempty)

(***************************************************************************)
(* The lexemes \w matches: the identifiers of the inputs and every keyword *)
(* the patterns spell out.                                                 *)
(***************************************************************************)
Identifiers == {"x", "y"}
Modifiers == {"public", "private", "protected", "static", "final", "native",
              "synchronized", "abstract", "transient"}
Keywords == {"class", "def", "struct", "interface", "extends", "implements",
             "throws", "package", "import", "require", "function", "const",
             "let", "var", "async", "export", "default"} \cup Modifiers
Word == Identifiers \cup Keywords
W == Tok(Word)

(***************************************************************************)
(* chunk_python_file                                                       *)
(***************************************************************************)
\* (?=\n\S|$)
next_toplevel == Ahead(Alt(<<Cat(<<Tok({"\n"}), NonS>>), Eos>>))

\* (class\s+\w+\s*(?:\([^)]*\))?\s*:(?:.|\n)*?)(?=\n\S|$)
py_class_pattern ==
  Cat(<<Tok({"class"}), Plus(S), Plus(W), Star(S),
        Opt(Cat(<<Tok({"("}), Star(NotTok({")"})), Tok({")"})>>)),
        Star(S), Tok({":"}), Lazy(AnyTok), next_toplevel>>)

\* (def\s+\w+\s*\([^)]*\)\s*(?:->.*?)?\s*:(?:.|\n)*?)(?=\n\S|$)
py_function_pattern ==
  Cat(<<Tok({"def"}), Plus(S), Plus(W), Star(S),
        Tok({"("}), Star(NotTok({")"})), Tok({")"}), Star(S),
        Opt(Cat(<<Tok({"->"}), Lazy(Dot)>>)),
        Star(S), Tok({":"}), Lazy(AnyTok), next_toplevel>>)

RECURSIVE remove_all(_, _)
\* for d in defs: content = content.replace(d, '')
remove_all(content, defs) ==
  IF defs = <<>> THEN content
  ELSE remove_all(replace(content, Head(defs)), Tail(defs))

\* line.startswith(' ')
starts_with_blank(line) == line # <<>> /\ line[1] = " "

RECURSIVE module_level(_, _)
\* the loop over lines that collects current_chunk (lines 56-61)
module_level(lines, current_chunk) ==
  IF lines = <<>> THEN current_chunk
  ELSE LET line == Head(lines)
       IN  IF strip_nonempty(line) /\ ~starts_with_blank(line)
           THEN module_level(Tail(lines), Append(current_chunk, line))
           ELSE IF current_chunk # <<>>
                THEN module_level(Tail(lines), Append(current_chunk, line))
                ELSE module_level(Tail(lines), current_chunk)

\* The locals of a chunker: each step below takes them and gives them back
\* as the lines it models leave them; ret is what the function returns.
entry(content) ==
  [content |-> content, chunks |-> <<>>, classes |-> <<>>,
   class_positions |-> <<>>, uncovered_ranges |-> <<>>, ret |-> <<>>]

\* lines 39-44: extract the classes and remove them from content
py_extract_classes(l) ==
  LET classes == findall(py_class_pattern, l.content)
  IN  [l EXCEPT !.classes = classes,
                !.chunks = l.chunks \o classes,
                !.content = remove_all(l.content, classes)]

\* lines 46-50: extract the functions left and remove them from content
py_extract_functions(l) ==
  LET functions == findall(py_function_pattern, l.content)
  IN  [l EXCEPT !.chunks = l.chunks \o functions,
                !.content = remove_all(l.content, functions)]

\* lines 52-64: imports and module-level code
py_module_level(l) ==
  LET current_chunk == module_level(split(l.content, "\n"), <<>>)
  IN  IF current_chunk # <<>>
      THEN [l EXCEPT !.chunks = Append(l.chunks, join(current_chunk, "\n"))]
      ELSE l

\* lines 66-70: content is the variable the replace calls have rewritten
py_return(l) ==
  [l EXCEPT !.ret = IF Len(l.chunks) <= 1 THEN <<l.content>> ELSE l.chunks]

\* the locals of chunk_python_file when it returns
chunk_python_file(content) ==
  py_return(py_module_level(py_extract_functions(py_extract_classes(entry(content)))))

(***************************************************************************)
(* The ranges not covered by classes (chunk_c_style_file lines 88-97, and  *)
(* the same loop in chunk_javascript_file lines 140-149).                  *)
(***************************************************************************)
\* tuple order on spans
span_le(a, b) == a[1] < b[1] \/ (a[1] = b[1] /\ a[2] <= b[2])

RECURSIVE sorted(_)
\* sorted(class_positions)
sorted(ps) ==
  IF ps = <<>> THEN <<>>
  ELSE LET n == CHOOSE m \in 1..Len(ps) : \A k \in 1..Len(ps) : span_le(ps[m], ps[k])
       IN  <<ps[n]>> \o sorted(SubSeq(ps, 1, n - 1) \o SubSeq(ps, n + 1, Len(ps)))

\* one pass of the outer loop: new_ranges for the class span (start, end)
new_ranges(uncovered, start, end) ==
  Flatten([n \in 1..Len(uncovered) |->
             (IF uncovered[n][1] < start THEN <<(<<uncovered[n][1], start>>)>> ELSE <<>>)
             \o (IF end < uncovered[n][2] THEN <<(<<end, uncovered[n][2]>>)>> ELSE <<>>)])

RECURSIVE uncovered_loop(_, _)
uncovered_loop(uncovered, positions) ==
  IF positions = <<>> THEN uncovered
  ELSE uncovered_loop(new_ranges(uncovered, Head(positions)[1], Head(positions)[2]),
                      Tail(positions))

\* lines 74-83 (and 120-129): the class matches, their texts and spans
match_classes(l, class_pattern) ==
  LET class_positions == finditer(class_pattern, l.content)
  IN  [l EXCEPT !.class_positions = class_positions,
                !.classes = [n \in 1..Len(class_positions) |->
                               slice(l.content, class_positions[n][1],
                                     class_positions[n][2])],
                !.chunks = [n \in 1..Len(class_positions) |->
                              slice(l.content, class_positions[n][1],
                                    class_positions[n][2])]]

\* lines 88-97 (and 140-149): uncovered_ranges after the loop
find_uncovered(l) ==
  [l EXCEPT !.uncovered_ranges =
     uncovered_loop(<<(<<0, Len(l.content)>>)>>, sorted(l.class_positions))]

\* lines 112-116 (and 165-169)
whole_file_or_chunks(l) ==
  [l EXCEPT !.ret = IF Len(l.chunks) <= 1 THEN <<l.content>> ELSE l.chunks]

\* lines 106-110 (and 159-163): one chunk of all the imports, if any
add_imports(l, import_pattern) ==
  LET imports == findall(import_pattern, l.content)
  IN  IF imports # <<>> THEN [l EXCEPT !.chunks = Append(l.chunks, join(imports, "\n"))]
      ELSE l

(***************************************************************************)
(* chunk_c_style_file                                                      *)
(***************************************************************************)
\* (?:<.*?>)?
generic == Opt(Cat(<<Tok({"<"}), Lazy(Dot), Tok({">"})>>))
\* \{(?:.|\n)*?)(^\})
brace_body == Cat(<<Tok({"{"}), Lazy(AnyTok), Bol, Tok({"}"})>>)
\* \([^)]*\)
params == Cat(<<Tok({"("}), Star(NotTok({")"})), Tok({")"})>>)

c_class_pattern ==
  Cat(<<Opt(Tok({"public", "private", "protected"})), Star(S),
        Tok({"class", "struct", "interface"}), Plus(S), Plus(W), generic,
        Opt(Cat(<<Plus(S), Tok({"extends"}), Plus(S), Plus(W), generic>>)),
        Opt(Cat(<<Plus(S), Tok({"implements"}), Plus(S),
                  Plus(Tok(Word \cup {",", "<", ">"} \cup Space))>>)),
        Star(S), brace_body>>)

method_pattern ==
  Cat(<<Tok(Modifiers), Star(Cat(<<Plus(S), Tok(Modifiers)>>)), Plus(S),
        Plus(Tok(Word \cup {"<", ">", "[", "]"})), Plus(S), Plus(W), Star(S), params,
        Opt(Cat(<<Plus(S), Tok({"throws"}), Plus(Tok(Word \cup {","} \cup Space))>>)),
        Star(S), brace_body>>)

\* (package\s+[\w.]+;|import\s+[\w.*]+;)
c_import_pattern ==
  Alt(<<Cat(<<Tok({"package"}), Plus(S), Plus(Tok(Word \cup {"."})), Tok({";"})>>),
        Cat(<<Tok({"import"}), Plus(S), Plus(Tok(Word \cup {".", "*"})), Tok({";"})>>)>>)

\* lines 99-104: the methods found in the uncovered ranges, range by range
c_extract_methods(l) ==
  [l EXCEPT !.chunks = l.chunks \o
     Flatten([n \in 1..Len(l.uncovered_ranges) |->
                match_texts(method_pattern,
                            slice(l.content, l.uncovered_ranges[n][1],
                                  l.uncovered_ranges[n][2]))])]

\* the locals of chunk_c_style_file when it returns
chunk_c_style_file(content) ==
  whole_file_or_chunks(
    add_imports(c_extract_methods(find_uncovered(
      match_classes(entry(content), c_class_pattern))), c_import_pattern))

(***************************************************************************)
(* chunk_javascript_file                                                   *)
(***************************************************************************)
\* (class\s+\w+(?:\s+extends\s+\w+)?\s*\{(?:.|\n)*?)(^\})
js_class_pattern ==
  Cat(<<Tok({"class"}), Plus(S), Plus(W),
        Opt(Cat(<<Plus(S), Tok({"extends"}), Plus(S), Plus(W)>>)),
        Star(S), brace_body>>)

\* (KW\s+\w+\s*=\s*(?:async\s*)?\([^)]*\)\s*=>\s*\{(?:.|\n)*?)(^\})
arrow_pattern(kw) ==
  Cat(<<Tok({kw}), Plus(S), Plus(W), Star(S), Tok({"="}), Star(S),
        Opt(Cat(<<Tok({"async"}), Star(S)>>)), params, Star(S), Tok({"=>"}),
        Star(S), brace_body>>)

function_patterns ==
  << Cat(<<Tok({"function"}), Plus(S), Plus(W), Star(S), params, Star(S), brace_body>>),
     arrow_pattern("const"),
     arrow_pattern("let"),
     arrow_pattern("var"),
     Cat(<<Tok({"export"}), Plus(S), Opt(Cat(<<Tok({"default"}), Plus(S)>>)),
           Tok({"function"}), Plus(S), Plus(W), Star(S), params, Star(S), brace_body>>) >>

\* (import\s+.*?;|require\(.*?\))
js_import_pattern ==
  Alt(<<Cat(<<Tok({"import"}), Plus(S), Lazy(Dot), Tok({";"})>>),
        Cat(<<Tok({"require"}), Tok({"("}), Lazy(Dot), Tok({")"})>>)>>)

\* lines 151-157: the functions found in the uncovered ranges, range by
\* range, pattern by pattern
js_extract_functions(l) ==
  [l EXCEPT !.chunks = l.chunks \o
     Flatten([n \in 1..Len(l.uncovered_ranges) |->
        Flatten([p \in 1..Len(function_patterns) |->
           match_texts(function_patterns[p],
                       slice(l.content, l.uncovered_ranges[n][1],
                             l.uncovered_ranges[n][2]))])])]

\* the locals of chunk_javascript_file when it returns
chunk_javascript_file(content) ==
  whole_file_or_chunks(
    add_imports(js_extract_functions(find_uncovered(
      match_classes(entry(content), js_class_pattern))), js_import_pattern))

(***************************************************************************)
(* chunk_code_file.  A path is a string.                                   *)
(***************************************************************************)
\* the character at index n (1-based) of a string
char(str, n) == SubSeq(str, n, n)

\* the last index of character c in str, or 0
last_index(str, c) ==
  IF \E n \in 1..Len(str) : char(str, n) = c
  THEN CHOOSE n \in 1..Len(str) :
         char(str, n) = c /\ \A m \in (n + 1)..Len(str) : char(str, m) # c
  ELSE 0

\* os.path.splitext(path)[1]: from the last dot of the last component, unless
\* only dots come before it there
splitext_ext(path) ==
  LET sep == last_index(path, "/")
      dot == last_index(path, ".")
  IN  IF dot > sep /\ \E n \in (sep + 1)..(dot - 1) : char(path, n) # "."
      THEN SubSeq(path, dot, Len(path))
      ELSE ""

upper_case == "ABCDEFGHIJKLMNOPQRSTUVWXYZ"
lower_case == "abcdefghijklmnopqrstuvwxyz"

lower_char(c) ==
  IF \E n \in 1..Len(upper_case) : char(upper_case, n) = c
  THEN char(lower_case, CHOOSE n \in 1..Len(upper_case) : char(upper_case, n) = c)
  ELSE c

RECURSIVE lower(_)
\* str.lower()
lower(str) ==
  IF str = "" THEN "" ELSE lower_char(char(str, 1)) \o lower(SubSeq(str, 2, Len(str)))

\* the locals of chunk_by_lines(content) with the default max_lines
plain_file(l) == [l EXCEPT !.chunks = chunk_by_lines(l.content, default_max_lines),
                           !.ret = chunk_by_lines(l.content, default_max_lines)]

\* the locals of the chunker chunk_code_file picks for the path, at its return
chunk_file_locals(content, file_path) ==
  LET ext == lower(splitext_ext(file_path))
  IN  IF ext \in {".py"} THEN chunk_python_file(content)
      ELSE IF ext \in {".java", ".cs", ".cpp", ".c", ".h"} THEN chunk_c_style_file(content)
      ELSE IF ext \in {".js", ".ts"} THEN chunk_javascript_file(content)
      ELSE plain_file(entry(content))

chunk_code_file(content, file_path) == chunk_file_locals(content, file_path).ret

\* the language family chunk_code_file picks for a path
family(file_path) ==
  LET ext == lower(splitext_ext(file_path))
  IN  IF ext \in {".py"} THEN "python"
      ELSE IF ext \in {".java", ".cs", ".cpp", ".c", ".h"} THEN "c_style"
      ELSE IF ext \in {".js", ".ts"} THEN "javascript"
      ELSE "other"

(***************************************************************************)
(* The inputs of the chunker: texts of 1..MaxLines lines, each line one of *)
(* a few lines of the language family.                                     *)
(***************************************************************************)
python_lines ==
  { <<"class", " ", "x", ":">>,
    <<"def", " ", "x", "(", ")", ":">>,
    <<" ", "def", " ", "y", "(", ")", ":">>,
    <<" ", "y">>,
    <<"x">>,
    <<>> }

c_style_lines ==
  { <<"class", " ", "x", " ", "{">>,
    <<"final", " ", "class", " ", "x", " ", "{">>,
    <<"}">>,
    <<"static", " ", "x", " ", "y", "(", ")", " ", "{">>,
    <<" ", "public", " ", "x", " ", "y", "(", ")", " ", "{", " ", "}">>,
    <<"import", " ", "x", ";">>,
    <<"y", ";">> }

javascript_lines ==
  { <<"class", " ", "x", " ", "{">>,
    <<"export", " ", "class", " ", "x", " ", "{">>,
    <<"}">>,
    <<"function", " ", "y", "(", ")", " ", "{">>,
    <<"const", " ", "y", " ", "=", " ", "(", ")", " ", "=>", " ", "{">>,
    <<"import", " ", "x", ";">>,
    <<"y", ";">> }

other_lines == { <<"x">>, <<"y", " ", "x">>, <<" ">>, <<>> }

\* the texts of 1..n lines drawn from lines
texts(lines, n) ==
  UNION { { join(ls, "\n") : ls \in [1..m -> lines] } : m \in 1..n }

\* the calls of the chunker: <<file_path, content>>
python_inputs == {<<"a.py", t>> : t \in texts(python_lines, MaxLines)}
brace_inputs(n) ==
  {<<"a.java", t>> : t \in texts(c_style_lines, n)}
  \cup {<<"a.ts", t>> : t \in texts(javascript_lines, n)}
plain_inputs == {<<"a.go", t>> : t \in texts(other_lines, MaxPlainLines)}

(***************************************************************************)
(* The indexer (code_indexer.py): paths, the files on disk, the store.     *)
(***************************************************************************)
\* further bounds: main runs at most MaxRuns times, one after the other, and at
\* most MaxFailures calls (of open, chunk_code_file, the store, the embedding
\* model) raise
MaxRuns == 2
MaxFailures == 1

starts_with(str, prefix) ==
  Len(prefix) <= Len(str) /\ SubSeq(str, 1, Len(prefix)) = prefix
ends_with(str, suffix) ==
  Len(suffix) <= Len(str) /\ SubSeq(str, Len(str) - Len(suffix) + 1, Len(str)) = suffix
\* sub in str
str_in(sub, str) ==
  \E n \in 1..(Len(str) - Len(sub) + 1) : SubSeq(str, n, n + Len(sub) - 1) = sub

\* os.path.relpath(file_path, repo_path), for a file below repo_path
relpath(path, repo_path) == SubSeq(path, Len(repo_path) + 2, Len(path))
\* os.path.basename(repo_path)
basename(path) == SubSeq(path, last_index(path, "/") + 1, Len(path))

\* file contents
py_module == <<"class", " ", "x", ":", "\n", " ", "y", "\n",
               "class", " ", "y", ":", "\n", " ", "x", "\n",
               "def", " ", "x", "(", ")", ":", "\n", " ", "y", "\n",
               "def", " ", "y", "(", ")", ":", "\n", " ", "x", "\n",
               "x">>
java_unit == <<"import", " ", "x", ";", "\n",
               "class", " ", "x", " ", "{", "\n", "}", "\n",
               "static", " ", "x", " ", "y", "(", ")", " ", "{", "\n", "}">>
js_unit == <<"import", " ", "x", ";", "\n",
             "function", " ", "y", "(", ")", " ", "{", "\n", "}">>

\* the files on disk, in the order glob lists them
disk ==
  << [path |-> "/r1/a.py", content |-> py_module],
     [path |-> "/r1/rebuild/d.py", content |-> py_module],
     [path |-> "/r1/b.py", content |-> py_module],
     [path |-> "/r1/notes.md", content |-> <<"x">>],
     [path |-> "/r1/node_modules/c.js", content |-> js_unit],
     [path |-> "/r1/lib/c.py", content |-> py_module],
     [path |-> "/r1/lib/d.py", content |-> py_module],
     [path |-> "/r1/lib/b.java", content |-> java_unit],
     [path |-> "/r1/lib/e.py", content |-> py_module],
     [path |-> "/r1/f.py", content |-> py_module],
     [path |-> "/r1/e.go", content |-> <<"x", "\n", "y">>],
     [path |-> "/r1/f.rb", content |-> <<>>],
     [path |-> "/r2/dist/n.py", content |-> py_module],
     [path |-> "/r2/g.ts", content |-> js_unit],
     [path |-> "/r2/.git/k.c", content |-> java_unit] >>

\* config['repositories'], as the run may find it
configurations == { <<"/r1">>, <<"/r1", "/r2">> }

\* line 25
code_extensions == <<".py", ".java", ".js", ".ts", ".go", ".rb", ".cs", ".cpp", ".c", ".h">>
\* line 34
excluded_dirs == <<"node_modules", "venv", ".git", "__pycache__", "build", "dist">>
\* line 72
batch_size == 32
\* len(test_embedding) for the configured model (lines 122-123)
embedding_dim == 384

\* a component of the path below the repository starts with a dot: glob's *
\* and ** match no such name
hidden(path, repo_path) ==
  \E n \in (Len(repo_path) + 1)..(Len(path) - 1) :
    char(path, n) = "/" /\ char(path, n + 1) = "."

\* glob.glob(f"{repo_path}/**/*{ext}", recursive=True)
glob(repo_path, ext) ==
  LET paths == [n \in 1..Len(disk) |-> disk[n].path]
  IN  SelectSeq(paths, LAMBDA q : /\ starts_with(q, repo_path \o "/")
                                  /\ ends_with(q, ext)
                                  /\ ~hidden(q, repo_path))

\* lines 26-29: the globs of all the extensions, one after the other
all_code_files(repo_path) ==
  Flatten([e \in 1..Len(code_extensions) |-> glob(repo_path, code_extensions[e])])

\* line 42: any(excluded_dir in file_path for excluded_dir in excluded_dirs),
\* with a path component in place of the substring
is_excluded_component(path) ==
  \E d \in 1..Len(excluded_dirs) : str_in("/" \o excluded_dirs[d] \o "/", path)

\* line 42: any(excluded_dir in file_path for excluded_dir in excluded_dirs)
is_excluded(path) ==
  \E d \in 1..Len(excluded_dirs) : str_in(excluded_dirs[d], path)

\* f.read() of a file on disk
read(path) == disk[CHOOSE n \in 1..Len(disk) : disk[n].path = path].content

\* lines 58-63
metadata(path, repo_path, i) ==
  [file_path |-> relpath(path, repo_path),
   repo_name |-> basename(repo_path),
   chunk_id |-> i,
   language |-> SubSeq(splitext_ext(path), 2, Len(splitext_ext(path)))]

\* line 64 leaves the loop body; the loop goes on with the next file.  Here:
\* the loop ends
after_error_break(index, files) == Len(files) + 1

\* lines 64-65: the error is logged, and the loop goes on with the next file
after_error(index, files) == index + 1

(***************************************************************************)
(* The state.                                                              *)
(***************************************************************************)
VARIABLES
  \* the chunker: the arguments of a call, which function was called
  \* ("none" before the call), its locals at the return, and what it returned
  file_path, content, max_lines, called, locals, result,
  \* the indexer: where main is
  \*   "main" (lines 104-160), "create" (162-174), "repos" (176-180),
  \*   "files" (40-65), "batches" (73-102), "done" (main returned at 180),
  \*   "returned" (main returned at 174), "crashed" (an exception left main)
  pc,
  \* config['repositories']
  repositories,
  \* what chunk_code_file returns for each file on disk: it is a function of
  \* the path and the content alone, so it is kept rather than recomputed
  chunked_disk,
  \* the collection in the store: whether it exists, its vector size, its points
  collection,
  \* the locals of main and process_repository
  recreate_collection, repo_index, code_files, file_index, all_chunks,
  file_metadata,
  \* i of the batch loop (line 73)
  batch_i,
  \* what can be observed of a run: the paths passed to open and to
  \* chunk_code_file, the paths of the "Error processing file" lines of the
  \* repository being processed, and the calls of get_collection,
  \* delete_collection, create_collection and upsert, in order
  opened, segmented, errors, store_log,
  \* the earlier runs of main: how each ended and its calls of the store
  runs,
  \* how many calls have raised
  failures

chunk_vars == <<file_path, content, max_lines, called, locals, result>>
index_vars == <<pc, repositories, chunked_disk, collection, recreate_collection, repo_index,
                code_files, file_index, all_chunks, file_metadata, batch_i,
                opened, segmented, errors, store_log, runs, failures>>
vars == <<chunk_vars, index_vars>>

no_locals == entry(<<>>)

\* the chunker is not in use
ChunkerIdle ==
  /\ file_path = "" /\ content = <<>> /\ max_lines = default_max_lines
  /\ called = "idle" /\ locals = no_locals /\ result = <<>>

\* the indexer is not in use
IndexerIdle ==
  /\ pc = "idle" /\ repositories = <<>> /\ chunked_disk = <<>>
  /\ collection = [exists |-> FALSE, size |-> 0, points |-> <<>>]
  /\ recreate_collection = FALSE /\ repo_index = 1 /\ code_files = <<>>
  /\ file_index = 1 /\ all_chunks = <<>> /\ file_metadata = <<>> /\ batch_i = 0
  /\ opened = {} /\ segmented = {} /\ errors = {} /\ store_log = <<>>
  /\ runs = <<>> /\ failures = 0

InitChunker(inputs) ==
  /\ \E in \in inputs : file_path = in[1] /\ content = in[2]
  /\ max_lines = default_max_lines
  /\ called = "none"
  /\ locals = no_locals
  /\ result = <<>>
  /\ IndexerIdle

\* chunk_code_file(content, file_path)
call_chunk_code_file ==
  /\ called = "none"
  /\ called' = "chunk_code_file"
  /\ locals' = chunk_file_locals(content, file_path)
  /\ result' = locals'.ret
  /\ UNCHANGED <<file_path, content, max_lines, index_vars>>

\* chunk_by_lines(content, max_lines)
call_chunk_by_lines ==
  /\ called = "none"
  /\ \E m \in 1..MaxWindow :
       /\ max_lines' = m
       /\ result' = chunk_by_lines(content, m)
  /\ called' = "chunk_by_lines"
  /\ UNCHANGED <<file_path, content, locals, index_vars>>

\* chunk_code_file on the inputs of every family, chunk_by_lines on plain text
InitChunk == InitChunker(python_inputs \cup brace_inputs(MaxLines) \cup plain_inputs)
NextChunk == call_chunk_code_file \/ (family(file_path) = "other" /\ call_chunk_by_lines)
SpecChunk == InitChunk /\ [][NextChunk]_vars

\* chunk_code_file on python
InitPython == InitChunker(python_inputs)
NextPython == call_chunk_code_file
SpecPython == InitPython /\ [][NextPython]_vars

\* chunk_code_file on c_style and javascript
InitBrace == InitChunker(brace_inputs(MaxBraceLines))
NextBrace == call_chunk_code_file
SpecBrace == InitBrace /\ [][NextBrace]_vars

\* chunk_by_lines and chunk_code_file on plain text
InitPlain == InitChunker(plain_inputs)
NextPlain == call_chunk_by_lines \/ call_chunk_code_file
SpecPlain == InitPlain /\ [][NextPlain]_vars

(***************************************************************************)
(* The indexer: main and process_repository.                               *)
(***************************************************************************)
absent == [exists |-> FALSE, size |-> 0, points |-> <<>>]
created(size) == [exists |-> TRUE, size |-> size, points |-> <<>>]

\* the collection before the first run: none, an empty one of the model's
\* dimension, an empty one of another dimension
initial_collections == {absent, created(embedding_dim), created(embedding_dim + embedding_dim)}

\* how a call of the store can end: it returns, or (while fewer than
\* MaxFailures calls have raised) it raises one of the two kinds of exception
\* main tells apart; the store may have done the work of a call that raises
outcomes(raised) ==
  {[raises |-> "none", done |-> TRUE]} \cup
  IF raised < MaxFailures
  THEN {[raises |-> e, done |-> d] : e \in {"ResponseHandlingException", "Exception"},
                                     d \in BOOLEAN}
  ELSE {}

raised_by(o) == IF o.raises = "none" THEN 0 ELSE 1

\* line 83, with ids that go on after the largest id in the store
point_id_fresh(i, j) ==
  IF DOMAIN collection.points = {} THEN i + j
  ELSE 1 + j + CHOOSE m \in DOMAIN collection.points :
                 \A k \in DOMAIN collection.points : k <= m

\* line 83: id=i+j
point_id(i, j) == i + j

\* an entry of the log of store calls
call(op, ids, o) ==
  [op |-> op, ids |-> ids, ok |-> o.raises = "none", done |-> o.done, raises |-> o.raises]

\* the entry of a call of get_collection: what it raised, and the vector size
\* of the collection it asked about
info_call(c, raises) ==
  [op |-> "get_collection", ids |-> <<>>, ok |-> raises = "none", done |-> FALSE,
   raises |-> raises, size |-> c.size]

\* qdrant_client.delete_collection
delete_collection(c, o) == IF o.done THEN absent ELSE c

\* qdrant_client.upsert: a point replaces the point of the same id
upsert(points, new) ==
  [id \in DOMAIN points \cup DOMAIN new |-> IF id \in DOMAIN new THEN new[id] ELSE points[id]]

\* embedding_model.encode, for one text
encode(text) == [of |-> text, size |-> embedding_dim]

\* lines 81-94: the points of the batch that starts at index start (from 0),
\* by id
batch_points(chunks, meta, start) ==
  LET n == Min(batch_size, Len(chunks) - start)
      j_of(id) == CHOOSE j \in 0..(n - 1) : point_id(start, j) = id
  IN  [id \in {point_id(start, j) : j \in 0..(n - 1)} |->
         [vector |-> encode(chunks[start + j_of(id) + 1]),
          payload |-> [text |-> chunks[start + j_of(id) + 1],
                       file_path |-> meta[start + j_of(id) + 1].file_path,
                       repo_name |-> meta[start + j_of(id) + 1].repo_name,
                       chunk_id |-> meta[start + j_of(id) + 1].chunk_id,
                       language |-> meta[start + j_of(id) + 1].language]]]

\* the ids of the points of a batch, in the order of the list
batch_ids(chunks, start) ==
  [k \in 1..Min(batch_size, Len(chunks) - start) |-> point_id(start, k - 1)]

InitIndexer ==
  /\ ChunkerIdle
  /\ pc = "main"
  /\ repositories \in configurations
  /\ chunked_disk = [n \in 1..Len(disk) |-> chunk_code_file(disk[n].content, disk[n].path)]
  /\ collection \in initial_collections
  /\ recreate_collection = FALSE /\ repo_index = 1 /\ code_files = <<>>
  /\ file_index = 1 /\ all_chunks = <<>> /\ file_metadata = <<>> /\ batch_i = 0
  /\ opened = {} /\ segmented = {} /\ errors = {} /\ store_log = <<>>
  /\ runs = <<>> /\ failures = 0

process_vars == <<repo_index, code_files, file_index, all_chunks, file_metadata,
                  batch_i, opened, segmented, errors>>

\* main, lines 126-160: is the collection there, and is it of the right size
check_collection ==
  /\ pc = "main"
  /\ pc' = "create"
  /\ \/ /\ ~collection.exists
        /\ recreate_collection' = TRUE
        /\ UNCHANGED <<collection, store_log, failures>>
     \/ /\ collection.exists
        /\ collection.size = embedding_dim
        /\ recreate_collection' = FALSE
        /\ store_log' = Append(store_log, info_call(collection, "none"))
        /\ UNCHANGED <<collection, failures>>
     \/ /\ collection.exists
        /\ collection.size # embedding_dim
        /\ recreate_collection' = TRUE
        /\ \E d \in outcomes(failures) :
             \/ /\ d.raises # "ResponseHandlingException"
                /\ collection' = delete_collection(collection, d)
                /\ store_log' = store_log \o <<info_call(collection, "none"),
                                                call("delete", <<>>, d)>>
                /\ failures' = failures + raised_by(d)
             \/ /\ d.raises = "ResponseHandlingException"
                /\ \E e \in outcomes(failures + 1) :
                     /\ collection' = delete_collection(delete_collection(collection, d), e)
                     /\ store_log' = store_log \o <<info_call(collection, "none"),
                                                     call("delete", <<>>, d),
                                                     call("delete", <<>>, e)>>
                     /\ failures' = failures + 1 + raised_by(e)
     \/ /\ collection.exists
        /\ failures < MaxFailures
        /\ recreate_collection' = TRUE
        /\ \E e \in outcomes(failures + 1) :
             /\ collection' = delete_collection(collection, e)
             /\ store_log' = store_log \o
                              <<info_call(collection, "ResponseHandlingException"),
                                call("delete", <<>>, e)>>
             /\ failures' = failures + 1 + raised_by(e)
     \/ /\ collection.exists
        /\ failures < MaxFailures
        /\ recreate_collection' = TRUE
        /\ failures' = failures + 1
        /\ store_log' = Append(store_log, info_call(collection, "Exception"))
        /\ UNCHANGED collection
  /\ UNCHANGED <<chunk_vars, repositories, chunked_disk, process_vars, runs>>

\* main, lines 162-174: create the collection.  The store refuses to create
\* a collection that exists.
create_collection ==
  /\ pc = "create"
  /\ \/ /\ ~recreate_collection
        /\ pc' = "repos"
        /\ UNCHANGED <<collection, store_log, failures>>
     \/ /\ recreate_collection
        /\ collection.exists
        /\ pc' = "returned"
        /\ store_log' = Append(store_log, call("create", <<>>, [raises |-> "Exception", done |-> FALSE]))
        /\ UNCHANGED <<collection, failures>>
     \/ /\ recreate_collection
        /\ ~collection.exists
        /\ \E c \in outcomes(failures) :
             /\ collection' = IF c.done THEN created(embedding_dim) ELSE collection
             /\ store_log' = Append(store_log, call("create", <<>>, c))
             /\ failures' = failures + raised_by(c)
             /\ pc' = IF c.raises = "none" THEN "repos" ELSE "returned"
  /\ UNCHANGED <<chunk_vars, repositories, chunked_disk, recreate_collection, process_vars, runs>>

\* process_repository, lines 20-38, for the next repository of main's loop
list_files ==
  /\ pc = "repos"
  /\ repo_index <= Len(repositories)
  /\ code_files' = all_code_files(repositories[repo_index])
  /\ all_chunks' = <<>>
  /\ file_metadata' = <<>>
  /\ file_index' = 1
  /\ errors' = {}
  /\ pc' = "files"
  /\ UNCHANGED <<chunk_vars, repositories, chunked_disk, collection, recreate_collection, repo_index,
                 batch_i, opened, segmented, store_log, runs, failures>>

\* line 53: chunk_code_file(content, file_path) for the content read from path
chunks_of(path) == chunked_disk[CHOOSE n \in 1..Len(disk) : disk[n].path = path]

\* lines 57-63: the metadata of the chunks of a file
file_records(path, repo_path) ==
  [k \in 1..Len(chunks_of(path)) |-> metadata(path, repo_path, k - 1)]

\* process_repository, lines 40-65: one turn of the loop over the files
process_file ==
  /\ pc = "files"
  /\ file_index <= Len(code_files)
  /\ \/ /\ is_excluded(code_files[file_index])
        /\ file_index' = file_index + 1
        /\ UNCHANGED <<all_chunks, file_metadata, opened, segmented, errors, failures>>
     \/ /\ ~is_excluded(code_files[file_index])
        /\ opened' = opened \cup {code_files[file_index]}
        /\ segmented' = segmented \cup {code_files[file_index]}
        /\ all_chunks' = all_chunks \o chunks_of(code_files[file_index])
        /\ file_metadata' = file_metadata \o
                            file_records(code_files[file_index], repositories[repo_index])
        /\ file_index' = file_index + 1
        /\ UNCHANGED <<errors, failures>>
     \/ \* open or read raises
        /\ ~is_excluded(code_files[file_index])
        /\ failures < MaxFailures
        /\ failures' = failures + 1
        /\ opened' = opened \cup {code_files[file_index]}
        /\ errors' = errors \cup {code_files[file_index]}
        /\ file_index' = after_error(file_index, code_files)
        /\ UNCHANGED <<all_chunks, file_metadata, segmented>>
     \/ \* chunk_code_file raises
        /\ ~is_excluded(code_files[file_index])
        /\ failures < MaxFailures
        /\ failures' = failures + 1
        /\ opened' = opened \cup {code_files[file_index]}
        /\ segmented' = segmented \cup {code_files[file_index]}
        /\ errors' = errors \cup {code_files[file_index]}
        /\ file_index' = after_error(file_index, code_files)
        /\ UNCHANGED <<all_chunks, file_metadata>>
  /\ UNCHANGED <<chunk_vars, pc, repositories, chunked_disk, collection, recreate_collection,
                 repo_index, code_files, batch_i, store_log, runs>>

\* process_repository, lines 67-72: after the loop over the files
end_of_files ==
  /\ pc = "files"
  /\ file_index > Len(code_files)
  /\ \/ /\ all_chunks = <<>>
        /\ repo_index' = repo_index + 1
        /\ pc' = "repos"
        /\ UNCHANGED batch_i
     \/ /\ all_chunks # <<>>
        /\ batch_i' = 0
        /\ pc' = "batches"
        /\ UNCHANGED repo_index
  /\ UNCHANGED <<chunk_vars, repositories, chunked_disk, collection, recreate_collection, code_files,
                 file_index, all_chunks, file_metadata, opened, segmented, errors,
                 store_log, runs, failures>>

\* process_repository, lines 73-102: one batch.  Nothing catches what encode
\* or upsert raises: the exception leaves process_repository and main.
index_batch ==
  /\ pc = "batches"
  /\ batch_i < Len(all_chunks)
  /\ \/ \* encode raises
        /\ failures < MaxFailures
        /\ failures' = failures + 1
        /\ pc' = "crashed"
        /\ UNCHANGED <<collection, store_log, batch_i>>
     \/ \E u \in outcomes(failures) :
          /\ collection' = IF u.done
                           THEN [collection EXCEPT !.points =
                                   upsert(@, batch_points(all_chunks, file_metadata, batch_i))]
                           ELSE collection
          /\ store_log' = Append(store_log, call("upsert", batch_ids(all_chunks, batch_i), u))
          /\ failures' = failures + raised_by(u)
          /\ pc' = IF u.raises = "none" THEN "batches" ELSE "crashed"
          /\ batch_i' = IF u.raises = "none" THEN batch_i + batch_size ELSE batch_i
  /\ UNCHANGED <<chunk_vars, repositories, chunked_disk, recreate_collection, repo_index, code_files,
                 file_index, all_chunks, file_metadata, opened, segmented, errors, runs>>

\* process_repository returns after the last batch
end_of_batches ==
  /\ pc = "batches"
  /\ batch_i >= Len(all_chunks)
  /\ repo_index' = repo_index + 1
  /\ pc' = "repos"
  /\ UNCHANGED <<chunk_vars, repositories, chunked_disk, collection, recreate_collection, code_files,
                 file_index, all_chunks, file_metadata, batch_i, opened, segmented,
                 errors, store_log, runs, failures>>

\* main, line 180: every repository has been processed
indexing_complete ==
  /\ pc = "repos"
  /\ repo_index > Len(repositories)
  /\ pc' = "done"
  /\ UNCHANGED <<chunk_vars, repositories, chunked_disk, collection, recreate_collection, process_vars,
                 store_log, runs, failures>>

\* line 183: main is run again, on the same configuration and the same store
run_again ==
  /\ pc \in {"done", "returned", "crashed"}
  /\ Len(runs) + 1 < MaxRuns
  /\ runs' = Append(runs, [outcome |-> pc, log |-> store_log])
  /\ pc' = "main"
  /\ recreate_collection' = FALSE /\ repo_index' = 1 /\ code_files' = <<>>
  /\ file_index' = 1 /\ all_chunks' = <<>> /\ file_metadata' = <<>> /\ batch_i' = 0
  /\ opened' = {} /\ segmented' = {} /\ errors' = {} /\ store_log' = <<>>
  /\ UNCHANGED <<chunk_vars, repositories, chunked_disk, collection, failures>>

Init == InitIndexer
Next ==
  \/ check_collection
  \/ create_collection
  \/ list_files
  \/ process_file
  \/ end_of_files
  \/ index_batch
  \/ end_of_batches
  \/ indexing_complete
  \/ run_again
Spec == Init /\ [][Next]_vars

(***************************************************************************)
(* The claims about the chunker.                                           *)
(***************************************************************************)
\* sub occurs in text
Contains(text, sub) ==
  \E i \in 0..(Len(text) - Len(sub)) : SubSeq(text, i + 1, i + Len(sub)) = sub

\* the lines of the input
input_lines == split(content, "\n")

\* the number of lines of a text
line_count(text) == Cardinality({i \in 1..Len(text) : text[i] = "\n"}) + 1

structural == {"python", "c_style", "javascript"}

\* C1: for every non-empty input and every language family, every line of the
\* input that is not white space occurs in at least one segment chunk_code_file
\* returns.
C1_EveryLineCovered ==
  (called = "chunk_code_file" /\ content # <<>>) =>
    \A n \in 1..Len(input_lines) :
      strip_nonempty(input_lines[n]) =>
        \E k \in 1..Len(result) : Contains(result[k], input_lines[n])

C3_WholeFileWhenFewChunks ==
  (called = "chunk_code_file" /\ family(file_path) \in structural
     /\ Len(locals.chunks) <= 1)
  => result = <<content>>

\* C4: a python input that is exactly one top-level class (the class match is the
\* whole input, nothing is left at module level) gives exactly one segment, the
\* class's full text.
C4_SingleClassIsTheSegment ==
  (called = "chunk_code_file" /\ family(file_path) = "python"
     /\ locals.classes = <<content>>)
  => result = <<content>>

\* the positions a list of spans covers
covered(spans) ==
  {p \in 0..(Len(content) - 1) :
     \E n \in 1..Len(spans) : spans[n][1] <= p /\ p < spans[n][2]}

\* C5: in chunk_c_style_file and chunk_javascript_file the ranges scanned for
\* methods and functions are exactly the positions of [0, len(content)) that no
\* class span covers, and no scanned range intersects a class span.
C5_ScannedIsUncovered ==
  (called = "chunk_code_file" /\ family(file_path) \in {"c_style", "javascript"}) =>
    /\ covered(locals.uncovered_ranges)
         = (0..(Len(content) - 1)) \ covered(locals.class_positions)
    /\ \A n \in 1..Len(locals.uncovered_ranges), c \in 1..Len(locals.class_positions) :
         ~(/\ locals.uncovered_ranges[n][1] < locals.class_positions[c][2]
           /\ locals.class_positions[c][1] < locals.uncovered_ranges[n][2])

\* the window (0-based) that line j (1-based) falls in
window_of(j) == (j - 1) \div max_lines

\* the lines whose window holds a line that is not white space
kept_lines ==
  {j \in 1..Len(input_lines) :
     \E j2 \in 1..Len(input_lines) :
       window_of(j2) = window_of(j) /\ strip_nonempty(input_lines[j2])}

\* the lines of s at the indices of J, in order
lines_at(s, J) ==
  LET idx == SelectSeq([j \in 1..Len(s) |-> j], LAMBDA j : j \in J)
  IN  [k \in 1..Len(idx) |-> s[idx[k]]]

\* C6: chunk_by_lines(content, max_lines) cuts the lines into the consecutive
\* windows that start at line 0, max_lines, 2*max_lines, ...: every chunk has at
\* most max_lines lines, none is white space only, the chunks are the windows in
\* input order with exactly the white-space-only windows dropped, and five lines
\* none of them blank give three chunks for max_lines = 2.
C6_LineWindows ==
  called = "chunk_by_lines" =>
    /\ \A k \in 1..Len(result) :
         line_count(result[k]) <= max_lines /\ strip_nonempty(result[k])
    /\ Flatten([k \in 1..Len(result) |-> split(result[k], "\n")])
         = lines_at(input_lines, kept_lines)
    /\ Len(result) = Cardinality({window_of(j) : j \in kept_lines})
    /\ \A k \in 1..Len(result) :
         \E w \in 0..Len(input_lines) :
           split(result[k], "\n")
             = lines_at(input_lines, {j \in 1..Len(input_lines) : window_of(j) = w})
    /\ (/\ Len(input_lines) = 5
        /\ max_lines = 2
        /\ \A j \in 1..5 : strip_nonempty(input_lines[j])) => Len(result) = 3

\* five lines, none blank, were cut with max_lines = 2 into three chunks
C6_Witness ==
  /\ called = "chunk_by_lines"
  /\ max_lines = 2
  /\ Len(input_lines) = 5
  /\ \A j \in 1..5 : strip_nonempty(input_lines[j])
  /\ Len(result) = 3

(***************************************************************************)
(* The claims about the indexer.                                           *)
(***************************************************************************)
\* the files the loop over code_files has passed
passed == 1..Min(file_index - 1, Len(code_files))

\* the ids of the points the upserts of a log wrote, in order
upserted_ids(log) ==
  Flatten([n \in 1..Len(log) |->
             IF log[n].op = "upsert" /\ log[n].done THEN log[n].ids ELSE <<>>])

\* a call of the log dropped or created the collection
cleared(log) ==
  \E n \in 1..Len(log) : log[n].op \in {"delete", "create"} /\ log[n].done

\* the path has a name of the denylist as a substring
names_denied(path) ==
  \E d \in {"node_modules", "venv", ".git", "__pycache__", "build", "dist"} :
    str_in(d, path)

\* C7: in process_repository, a candidate file whose path has a name of the
\* denylist (node_modules, venv, .git, __pycache__, build, dist) as a
\* substring is never opened and never segmented, and no metadata record and
\* no chunk comes from it: every chunk has its metadata record, and no record
\* is of such a file.
C7_ExcludedFilesSkipped ==
  pc \in {"files", "batches"} =>
    /\ Len(all_chunks) = Len(file_metadata)
    /\ \A n \in passed :
         names_denied(code_files[n]) =>
           /\ code_files[n] \notin opened
           /\ code_files[n] \notin segmented
           /\ \A m \in 1..Len(file_metadata) :
                file_metadata[m].file_path #
                  relpath(code_files[n], repositories[repo_index])

\* C7: the loop has passed a file with content below a directory whose name
\* only contains a denylist name (rebuild), and other files have contributed
C7_Witness ==
  /\ pc = "batches"
  /\ \E n \in passed :
       /\ str_in("/rebuild/", code_files[n])
       /\ read(code_files[n]) # <<>>
       /\ code_files[n] \notin opened
  /\ all_chunks # <<>>

\* count records of a file: its relative path, the repository's name, its
\* language, and the chunk ids 0, 1, ...
records_of(rel_path, repo_name, language, count) ==
  [k \in 1..count |->
     [file_path |-> rel_path, repo_name |-> repo_name, chunk_id |-> k - 1,
      language |-> language]]

\* what the n-th candidate file has to contribute: nothing when it is
\* excluded or its processing failed, else all of its chunks, and the
\* metadata records that go with them
due(n) ==
  IF is_excluded(code_files[n]) \/ code_files[n] \in errors
  THEN [chunks |-> <<>>, records |-> <<>>]
  ELSE [chunks |-> chunks_of(code_files[n]),
        records |-> records_of(relpath(code_files[n], repositories[repo_index]),
                               basename(repositories[repo_index]),
                               SubSeq(splitext_ext(code_files[n]), 2,
                                      Len(splitext_ext(code_files[n]))),
                               Len(chunks_of(code_files[n])))]

due_chunks(n) == due(n).chunks

\* all_chunks and file_metadata hold what is due, file after file
aligned(dues) ==
  /\ all_chunks = Flatten([n \in 1..Len(dues) |-> dues[n].chunks])
  /\ file_metadata = Flatten([n \in 1..Len(dues) |-> dues[n].records])

\* C8: in process_repository, a read or segmentation failure on one file
\* never aborts the walk.  The failing file contributes nothing, and every
\* other file that is not excluded, before or after it, contributes all of its
\* chunks with their metadata: all_chunks and file_metadata have the same
\* length and are aligned index by index.  No exception leaves the run
\* before the loop has passed every candidate file.
C8_FailureSkipsOneFile ==
  /\ pc \in {"files", "batches"} =>
       /\ aligned(<<>> \o [n \in passed |-> due(n)])
       /\ Len(all_chunks) = Len(file_metadata)
  /\ pc = "batches" => file_index = Len(code_files) + 1
  /\ pc = "crashed" => file_index = Len(code_files) + 1

\* C8: the walk is over, a file failed, and files before it and after it
\* have contributed
C8_Witness ==
  /\ pc = "batches"
  /\ \E a, b, c \in 1..Len(code_files) :
       /\ a < b /\ b < c
       /\ code_files[b] \in errors
       /\ due_chunks(a) # <<>>
       /\ due_chunks(c) # <<>>
       /\ \E k \in 1..Len(file_metadata) :
            file_metadata[k].file_path = relpath(code_files[c], repositories[repo_index])

\* main has run twice to the end, the second run has neither dropped nor
\* created the collection, and both runs upserted the same number of points
TwoRuns ==
  /\ pc = "done"
  /\ Len(runs) = 1
  /\ runs[1].outcome = "done"
  /\ ~cleared(store_log)
  /\ Len(upserted_ids(runs[1].log)) = Len(upserted_ids(store_log))

\* C9, as the specification states it: two runs over the same roots without
\* clearing the store leave two full sets of entries with distinct ids, 2N
\* points for N chunks
C9_TwoFullSets ==
  TwoRuns => Cardinality(DOMAIN collection.points) = 2 * Len(upserted_ids(store_log))

\* C9: when main runs twice over the same roots and the collection, empty
\* before the first run, is not dropped in between, the second run upserts ids
\* the first run used and replaces those points: the store holds the ids of
\* the two runs and at most N points for the N chunks of a run; with one
\* repository it holds exactly the ids 0..N-1, with the chunks of the second
\* run.
C9_SecondRunOverwrites ==
  TwoRuns =>
    /\ DOMAIN collection.points =
         Range(upserted_ids(runs[1].log)) \cup Range(upserted_ids(store_log))
    /\ Cardinality(DOMAIN collection.points) <= Len(upserted_ids(store_log))
    /\ Len(repositories) = 1 =>
         /\ DOMAIN collection.points = 0..(Len(upserted_ids(store_log)) - 1)
         /\ Len(all_chunks) = Len(upserted_ids(store_log))
         /\ \A id \in DOMAIN collection.points :
              collection.points[id].payload.text = all_chunks[id + 1]

\* C9: two runs of more than one batch each over one repository
C9_Witness ==
  /\ TwoRuns
  /\ Len(repositories) = 1
  /\ Len(upserted_ids(store_log)) > batch_size
  /\ Cardinality(DOMAIN collection.points) = Len(upserted_ids(store_log))

\* C10: within one run of main, the ids of the upserted points are strictly
\* increasing in upsert order, across batches and repositories, so no point
\* upserted earlier in the run is overwritten by a later one
C10_IdsIncreaseInRun ==
  \A a, b \in 1..Len(upserted_ids(store_log)) :
    a < b => upserted_ids(store_log)[a] < upserted_ids(store_log)[b]

\* an upsert of the log raised
upsert_failed(log) ==
  \E n \in 1..Len(log) : log[n].op = "upsert" /\ ~log[n].ok

\* C11: when the upsert of a batch fails, the run goes on: no exception leaves
\* process_repository and main, and when main is done every other batch of
\* every repository has been upserted, so the log holds one upsert per
\* batch of the run.
C11_UpsertFailureContinues ==
  upsert_failed(store_log) =>
    /\ pc # "crashed"
    /\ pc = "done" =>
         \E n \in 1..Len(store_log) :
           store_log[n].op = "upsert" /\ store_log[n].ok

\* main found the collection and asked for its info
inspected == store_log # <<>> /\ store_log[1].op = "get_collection"

\* the log has a delete_collection that worked and, after it and before any
\* upsert, a create_collection that worked
dropped_and_recreated ==
  \E a, b \in 1..Len(store_log) :
    /\ a < b
    /\ store_log[a].op = "delete" /\ store_log[a].ok /\ store_log[a].done
    /\ store_log[b].op = "create" /\ store_log[b].ok /\ store_log[b].done
    /\ \A n \in 1..b : store_log[n].op # "upsert"

\* no call has raised but, at most, the get_collection of this run: the
\* store does what delete_collection, create_collection and upsert ask
store_works == failures = (IF store_log[1].ok THEN 0 ELSE 1)

\* C12: in main, when the collection exists and its vector size differs from
\* the embedding dimension, or get_collection raises (whatever the
\* exception), then, once main is past the creation step, the collection has
\* been deleted and created again with the embedding dimension, before any
\* upsert; when the sizes match, the collection is neither deleted nor
\* created.  (Stated for the runs in which no other call raises.)
C12_DropAndRecreate ==
  (inspected /\ store_works /\ pc \notin {"main", "create"}) =>
    /\ (~store_log[1].ok \/ store_log[1].size # embedding_dim) =>
         /\ dropped_and_recreated
         /\ pc # "returned"
    /\ (store_log[1].ok /\ store_log[1].size = embedding_dim) =>
         \A n \in 1..Len(store_log) : store_log[n].op \notin {"delete", "create"}

\* uncovered_ranges after the first k class spans, in sorted order, have
\* been processed
ranges_after(k) ==
  uncovered_loop(<<(<<0, Len(content)>>)>>, SubSeq(sorted(locals.class_positions), 1, k))

\* the ranges are in the order of their starts
sorted_by_start(ranges) ==
  \A a, b \in 1..Len(ranges) : a < b => ranges[a][1] <= ranges[b][1]

\* no position is in two of the ranges
pairwise_disjoint(ranges) ==
  \A a, b \in 1..Len(ranges) :
    a # b => (ranges[a][2] <= ranges[b][1] \/ ranges[b][2] <= ranges[a][1])

\* C13: in chunk_c_style_file and chunk_javascript_file, after each class
\* span is processed and at the end of the loop, uncovered_ranges is sorted by
\* start and its ranges are pairwise disjoint.
C13_RangesSortedDisjoint ==
  (called = "chunk_code_file" /\ family(file_path) \in {"c_style", "javascript"}) =>
    /\ ranges_after(Len(locals.class_positions)) = locals.uncovered_ranges
    /\ \A k \in 0..Len(locals.class_positions) :
         /\ sorted_by_start(ranges_after(k))
         /\ pairwise_disjoint(ranges_after(k))

====
